---- MODULE Spec2Model ----
(***************************************************************************)
(* MCGFinances API (the Express handlers of apps/api, as collected in      *)
(* src/apps/web/src/App.tsx lines 87-133 and 176-926) over its relational  *)
(* store (src/unnamed/part_002).                                           *)
(*                                                                         *)
(* Conventions                                                              *)
(*  - An instant is a whole number of days; day 0 is 2023-01-01 (UTC).     *)
(*    Date.setMonth keeps the time of day, so the day is the only part of  *)
(*    an instant the handlers compute with.                                *)
(*  - A request amount is a number of tenths (25 is 2.5), so that the      *)
(*    fractional amounts z.number().positive() accepts exist in the model. *)
(*    A stored amount is a whole number (column INTEGER).                  *)
(*  - runwayMonths has one decimal: it is kept as a number of tenths       *)
(*    (8 is 0.8).                                                          *)
(*  - The transaction table is a bag of rows: the row id (a random cuid)   *)
(*    is not modelled, two rows with equal fields are two copies.          *)
(***************************************************************************)
EXTENDS Integers, Sequences, FiniteSets, Bags, TLC

VARIABLES
    users,          \* table User: set of [id, email, passwordHash]
    memberships,    \* table Membership: set of [userId, organizationId]
    transactions,   \* table Transaction: bag of TxRow
    summaries,      \* table Summary: set of [organizationId, cashOnHand, monthlyBurn, runwayMonths, updatedAt]
    issued,         \* the tokens generateToken has signed, the latest of each payload
    now,            \* the clock (new Date())
    created,        \* number of rows POST /transactions has inserted so far
    req,            \* the requests in flight, one per slot
    resp,           \* the HTTP response the last step sent (NoResp if it sent none)
    access,         \* the Transaction/Summary rows the last step read or wrote
    basis           \* history: for each Summary row, the transactions its writer had read

vars == <<users, memberships, transactions, summaries, issued, now, created, req, resp, access, basis>>

store == <<users, memberships, transactions, summaries>>

-----------------------------------------------------------------------------
(* Bounds of the model *)

\* POST /transactions inserts at most this many rows in one behaviour
MaxCreated == 1
\* the clock stops this many days after the first instant
MaxElapsed == 30
\* the number of rows of the ledgers the calculator is applied to in CalcSpec
CalcMaxTx == 4
\* the number of rows of the small ledgers of RepeatSpec
RepeatMaxTx == 2

\* the request slots, for the requests that take several steps
Slots == {1, 2}
\* the slots Spec uses: one request of several steps at a time, every
\* one-step request interleaved with it
MainSlots == {1}
\* the first instant: 2023-03-01
StartDay == 31 + 28
\* the clock advances by one of these numbers of days
TickSteps == {10, 20}

-----------------------------------------------------------------------------
(* The calendar of Date: getMonth, getDate, setMonth (ECMAScript MakeDay) *)

IsLeap(y) == (y % 4 = 0 /\ y % 100 # 0) \/ y % 400 = 0

DaysInYear(y) == IF IsLeap(y) THEN 366 ELSE 365

\* m is a month index 0..11, as in Date
DaysInMonth(y, m) ==
    CASE m = 1 -> IF IsLeap(y) THEN 29 ELSE 28
      [] m \in {3, 5, 8, 10} -> 30
      [] OTHER -> 31

RECURSIVE DaysBeforeYear(_)
DaysBeforeYear(y) ==
    IF y = 2023 THEN 0
    ELSE IF y > 2023 THEN DaysBeforeYear(y - 1) + DaysInYear(y - 1)
    ELSE DaysBeforeYear(y + 1) - DaysInYear(y)

RECURSIVE DaysBeforeMonth(_, _)
DaysBeforeMonth(y, m) ==
    IF m = 0 THEN 0 ELSE DaysBeforeMonth(y, m - 1) + DaysInMonth(y, m - 1)

\* floor division and modulus for a month index that may be negative
FloorDiv12(m) == IF m >= 0 THEN m \div 12 ELSE -((11 - m) \div 12)

\* ECMAScript MakeDay(year, month, date): month and date outside their range
\* carry into the year and the following months
MakeDay(y, m, d) ==
    LET ym == y + FloorDiv12(m)
        mn == m - 12 * FloorDiv12(m)
    IN  DaysBeforeYear(ym) + DaysBeforeMonth(ym, mn) + d - 1

RECURSIVE YearFrom(_, _)
YearFrom(t, y) ==
    IF t < DaysBeforeYear(y) THEN YearFrom(t, y - 1)
    ELSE IF t >= DaysBeforeYear(y + 1) THEN YearFrom(t, y + 1)
    ELSE y

getFullYear(t) == YearFrom(t, 2023)

RECURSIVE MonthFrom(_, _, _)
MonthFrom(t, y, m) ==
    IF t >= MakeDay(y, m + 1, 1) THEN MonthFrom(t, y, m + 1) ELSE m

getMonth(t) == MonthFrom(t, getFullYear(t), 0)

getDate(t) == t - MakeDay(getFullYear(t), getMonth(t), 1) + 1

\* Date.prototype.setMonth(month): same year and day of month, the given month
setMonth(t, m) == MakeDay(getFullYear(t), m, getDate(t))

\* A date string "YYYY-MM-DD" is the tuple <<year, month, day>>. new Date(s)
\* is an instant when the month and the day exist, and Invalid Date (NaN)
\* otherwise.
IsDateString(s) ==
    /\ s[2] \in 1..12
    /\ s[3] \in 1..DaysInMonth(s[1], s[2] - 1)

NewDate(s) ==
    IF IsDateString(s)
    THEN [valid |-> TRUE, time |-> MakeDay(s[1], s[2] - 1, s[3])]
    ELSE [valid |-> FALSE, time |-> 0]

-----------------------------------------------------------------------------
(* Numbers: Math.round and Number.prototype.toFixed(1) *)

\* Math.round on a number of tenths: the nearest integer, a half goes up
MathRound(tenths) ==
    IF tenths >= 0 THEN (tenths + 5) \div 10 ELSE -((5 - tenths - 1) \div 10)

Abs(x) == IF x < 0 THEN -x ELSE x

\* 2^m mod 5
Pow2Mod5(m) == CASE m % 4 = 0 -> 1 [] m % 4 = 1 -> 2 [] m % 4 = 2 -> 4 [] OTHER -> 3

\* floor(log2(n / 20)) for n >= 1
RECURSIVE Log2Over20(_, _)
Log2Over20(n, j) ==
    IF j >= 0
    THEN IF 40 * (2 ^ j) <= n THEN Log2Over20(n, j + 1) ELSE j
    ELSE IF n * (2 ^ (-j)) >= 20 THEN j ELSE Log2Over20(n, j - 1)

\* The double a / b against the decimal tie n / 20 it is nearest to (n odd):
\* TRUE when the double is the tie itself or above it. n / 20 is a double only
\* when 5 divides n; otherwise its 53-bit significand is n * 2^(50 - j) / 5
\* rounded to nearest, j = floor(log2(n / 20)), and the remainder of that
\* division tells the direction.
DoubleAtOrAboveTie(n) ==
    LET j == IF n >= 20 THEN Log2Over20(n, 0) ELSE Log2Over20(n, -1)
        r == ((n % 5) * Pow2Mod5(50 - j)) % 5
    IN  n % 5 = 0 \/ r >= 3

\* toFixed that cuts the digits after the first decimal instead of rounding
ToFixed1Truncating(a, b) ==
    LET n == (10 * Abs(a)) \div b
    IN  IF a < 0 THEN -n ELSE n

\* Number((a / b).toFixed(1)) in tenths, b > 0: toFixed rounds the magnitude
\* of the double to the nearest tenth, the larger one on an exact tie
ToFixed1(a, b) ==
    LET mag == Abs(a)
        k == (10 * mag) \div b
        rem == (10 * mag) % b
        up == \/ 2 * rem > b
              \/ 2 * rem = b /\ DoubleAtOrAboveTie(2 * k + 1)
        n == IF up THEN k + 1 ELSE k
    IN  IF a < 0 THEN -n ELSE n

-----------------------------------------------------------------------------
(* Tokens (auth.ts) *)

\* jwt.sign(..., { expiresIn: '7d' })
TokenTTL == 7

\* jwt.sign(payload, secret): signed is the HMAC made with JWT_SECRET
generateToken(userId, organizationId) ==
    [userId |-> userId, organizationId |-> organizationId,
     exp |-> now + TokenTTL, signed |-> TRUE]

\* a verification of the signature alone
verifySignatureOnly(token) == token.signed

\* jwt.verify(token, secret): the signature, then the expiry
verify(token) == token.signed /\ now < token.exp

\* a token that is not a JWT at all
Malformed == [userId |-> 0, organizationId |-> 0, exp |-> 0, signed |-> FALSE]

\* authenticate: the Authorization header is [bearer, token]
authenticate(header) == header.bearer /\ verify(header.token)

authMessage(header) == IF header.bearer THEN "Invalid token" ELSE "Missing auth token"

NoAuth == [userId |-> 0, organizationId |-> 0]

TokenPayload(token) == [userId |-> token.userId, organizationId |-> token.organizationId]

\* The tokens in circulation once one more is signed. Of the tokens of one
\* payload only the latest is kept: authenticate accepts an older one only
\* while it accepts the latest, and resolves both to the same payload.
Issue(token) ==
    {t \in issued : TokenPayload(t) # TokenPayload(token)} \cup {token}

-----------------------------------------------------------------------------
(* The store (prisma) *)

\* ids: users are 1, 2, ..., the organization created with user n is 10 + n
NewUserId == Cardinality(users) + 1
\* a signup that joins the first organization there is instead of creating one
NewOrgIdReused ==
    IF memberships = {} THEN 10 + Cardinality(users) + 1
    ELSE CHOOSE o \in {m.organizationId : m \in memberships} :
            \A m \in memberships : o <= m.organizationId
NewOrgId == 10 + Cardinality(users) + 1

OrgIds == {m.organizationId : m \in memberships}

bcryptHash(password) == <<"bcrypt", password>>
\* a comparison that accepts every password
bcryptCompareAlways(password, hash) == TRUE
bcryptCompare(password, hash) == hash = bcryptHash(password)

findUserByEmail(email) == {u \in users : u.email = email}

\* a findFirst whose where clause lacks the userId
findMembershipOfAnyone(userId, organizationId) ==
    {m \in memberships : m.organizationId = organizationId}

\* prisma.membership.findFirst({ where: { userId, organizationId } })
findMembership(userId, organizationId) ==
    {m \in memberships : m.userId = userId /\ m.organizationId = organizationId}

\* getUserOrganizations(userId)
getUserOrganizations(userId) ==
    {m.organizationId : m \in {x \in memberships : x.userId = userId}}

\* the rows of the table that are in a set, with their copies
Restrict(rows) == [row \in rows |-> transactions[row]]

\* where: { organizationId }
TxOfOrg(o) == Restrict({row \in DOMAIN transactions : row.organizationId = o})

\* a deleteMany without its where clause
TxWithoutAny(o) == EmptyBag

\* deleteMany({ where: { organizationId } }): what is left
TxWithoutOrg(o) == Restrict({row \in DOMAIN transactions : row.organizationId # o})

\* orderBy: { occurredAt: 'desc' } / 'asc': the rows of a bag as an array
RECURSIVE OrderDesc(_)
OrderDesc(b) ==
    IF DOMAIN b = {} THEN <<>>
    ELSE LET first == CHOOSE x \in DOMAIN b : \A y \in DOMAIN b : y.occurredAt <= x.occurredAt
         IN  <<first>> \o OrderDesc(b (-) SetToBag({first}))

RECURSIVE OrderAsc(_)
OrderAsc(b) ==
    IF DOMAIN b = {} THEN <<>>
    ELSE LET first == CHOOSE x \in DOMAIN b : \A y \in DOMAIN b : x.occurredAt <= y.occurredAt
         IN  <<first>> \o OrderAsc(b (-) SetToBag({first}))

\* take: n
Take(s, n) == IF Len(s) <= n THEN s ELSE SubSeq(s, 1, n)

\* a summary.deleteMany without its where clause
SummariesWithoutAny(o) == {}

\* prisma.summary.deleteMany({ where: { organizationId } }): what is left
SummariesWithoutOrg(o) == {s \in summaries : s.organizationId # o}

\* an upsert that always inserts, on a table without the unique index
upsertSummaryAlwaysInsert(o, cash, burn, runway) ==
    summaries \cup {[organizationId |-> o, cashOnHand |-> cash, monthlyBurn |-> burn,
                     runwayMonths |-> runway, updatedAt |-> now]}

\* an upsert whose update branch writes nothing
upsertSummaryInsertOnly(o, cash, burn, runway) ==
    IF \E s \in summaries : s.organizationId = o THEN summaries
    ELSE summaries \cup {[organizationId |-> o, cashOnHand |-> cash, monthlyBurn |-> burn,
                          runwayMonths |-> runway, updatedAt |-> now]}

\* prisma.summary.upsert({ where: { organizationId }, update, create }): the
\* table afterwards; updatedAt is @updatedAt
upsertSummary(o, cash, burn, runway) ==
    {s \in summaries : s.organizationId # o}
        \cup {[organizationId |-> o, cashOnHand |-> cash, monthlyBurn |-> burn,
               runwayMonths |-> runway, updatedAt |-> now]}

\* the row an upsert returns: the row of that organization afterwards
summaryRow(table, o) == CHOOSE s \in table : s.organizationId = o

-----------------------------------------------------------------------------
(* The summary computation (GET /api/v1/summary) *)

\* a window of thirty days
burnWindowThirtyDays(t) == t - 30

\* burnWindow.setMonth(burnWindow.getMonth() - 1)
burnWindow(t) == setMonth(t, getMonth(t) - 1)

\* a reduce that adds every amount, whatever the type
RECURSIVE cashOnHandUnsigned(_)
cashOnHandUnsigned(txs) ==
    IF txs = <<>> THEN 0
    ELSE cashOnHandUnsigned(SubSeq(txs, 1, Len(txs) - 1)) + txs[Len(txs)].amount

\* transactions.reduce((total, t) => total + (INCOME ? amount : -amount), 0)
RECURSIVE cashOnHand(_)
cashOnHand(txs) ==
    IF txs = <<>> THEN 0
    ELSE cashOnHand(SubSeq(txs, 1, Len(txs) - 1))
         + (IF txs[Len(txs)].type = "INCOME" THEN txs[Len(txs)].amount
            ELSE -txs[Len(txs)].amount)

\* the filter of monthlyBurn
inBurn(row, window) == row.type = "EXPENSE" /\ row.occurredAt >= window

\* transactions.filter(...).reduce((total, t) => total + t.amount, 0)
RECURSIVE monthlyBurn(_, _)
monthlyBurn(txs, window) ==
    IF txs = <<>> THEN 0
    ELSE monthlyBurn(SubSeq(txs, 1, Len(txs) - 1), window)
         + (IF inBurn(txs[Len(txs)], window) THEN txs[Len(txs)].amount ELSE 0)

\* a runway that divides by at least 1 instead of answering 0
runwayMonthsUnguarded(cash, burn) == ToFixed1(cash, IF burn > 0 THEN burn ELSE 1)

\* monthlyBurn > 0 ? Number((cashOnHand / monthlyBurn).toFixed(1)) : 0
runwayMonths(cash, burn) == IF burn > 0 THEN ToFixed1(cash, burn) ELSE 0

-----------------------------------------------------------------------------
(* Requests and responses *)

Idle == [op |-> "none", pc |-> "idle", cred |-> "none", auth |-> NoAuth, email |-> <<>>,
         password |-> "", target |-> 0, txs |-> <<>>]

NoResp == [op |-> "none", cred |-> "none", status |-> 0, message |-> "",
           auth |-> NoAuth, input |-> <<>>, body |-> <<>>]

Resp(op, cred, status, message, auth, input, body) ==
    [op |-> op, cred |-> cred, status |-> status, message |-> message,
     auth |-> auth, input |-> input, body |-> body]

NoAccess == [session |-> 0, rows |-> {}]

\* What becomes of a request whose handler throws after an await: the
\* handlers are async functions without a catch and the app installs no error
\* middleware. Express 4 never sees the rejected promise and no response is
\* sent (status 0); Express 5 passes it to its default error handler, which
\* answers 500. The version is not fixed by the sources: both are possible.
Unhandled ==
    {[status |-> 0, message |-> "unhandled rejection"],
     [status |-> 500, message |-> "Internal Server Error"]}

\* the organizations of the rows of a bag, an array or a table
OrgsOfBag(b) == {row.organizationId : row \in DOMAIN b}
OrgsOfSeq(s) == {s[i].organizationId : i \in DOMAIN s}

\* The credentials a client can present, by kind
Credentials ==
    {[kind |-> "missing", header |-> [bearer |-> FALSE, token |-> Malformed]],
     [kind |-> "malformed", header |-> [bearer |-> TRUE, token |-> Malformed]]}
    \cup {[kind |-> "forged", header |-> [bearer |-> TRUE, token |-> [t EXCEPT !.signed = FALSE]]] :
            t \in issued}
    \cup {[kind |-> IF t.exp <= now THEN "expired" ELSE "valid",
           header |-> [bearer |-> TRUE, token |-> t]] : t \in issued}

\* Every step starts after the previous step's response and access log have
\* been taken
Quiet == resp = NoResp /\ access = NoAccess

\* authenticate answers 401 and the handler never runs
Reject(c) ==
    /\ Quiet
    /\ ~authenticate(c.header)
    /\ resp' = Resp("authenticate", c.kind, 401, authMessage(c.header), NoAuth, <<>>, <<>>)
    /\ access' = NoAccess
    /\ UNCHANGED <<users, memberships, transactions, summaries, basis, issued, now, created, req>>

-----------------------------------------------------------------------------
(* POST /api/v1/auth/signup *)

\* z.string().email(): an address is <<local part, domain>>
IsEmail(e) == Len(e[1]) >= 1 /\ Len(e[2]) >= 3

signupSchema(email, password, organizationName) ==
    IsEmail(email) /\ Len(password) >= 6 /\ Len(organizationName) >= 2

\* safeParse, then prisma.user.findUnique({ where: { email } })
SignupStart(r, email, password, organizationName) ==
    /\ Quiet
    /\ req[r].pc = "idle"
    /\ access' = NoAccess
    /\ UNCHANGED <<users, memberships, transactions, summaries, basis, issued, now, created>>
    /\ IF ~signupSchema(email, password, organizationName)
       THEN /\ resp' = Resp("signup", "none", 400, "Invalid payload", NoAuth, email, <<>>)
            /\ UNCHANGED req
       ELSE IF findUserByEmail(email) # {}
       THEN /\ resp' = Resp("signup", "none", 409, "Account already exists", NoAuth, email, <<>>)
            /\ UNCHANGED req
       ELSE /\ req' = [req EXCEPT ![r] = [Idle EXCEPT !.op = "signup", !.pc = "create",
                                                       !.email = email, !.password = password]]
            /\ resp' = NoResp

\* prisma.user.create with the nested membership and organization: one
\* statement; the unique index User_email_key makes it throw when the email
\* was taken meanwhile, and the handler has no catch
SignupCreate(r) ==
    /\ Quiet
    /\ req[r].op = "signup" /\ req[r].pc = "create"
    /\ access' = NoAccess
    /\ UNCHANGED <<transactions, summaries, basis, issued, now, created>>
    /\ IF findUserByEmail(req[r].email) # {}
       THEN /\ \E e \in Unhandled :
                  resp' = Resp("signup", "none", e.status, e.message, NoAuth, req[r].email, <<>>)
            /\ req' = [req EXCEPT ![r] = Idle]
            /\ UNCHANGED <<users, memberships>>
       ELSE /\ users' = users \cup {[id |-> NewUserId, email |-> req[r].email,
                                      passwordHash |-> bcryptHash(req[r].password)]}
            /\ memberships' = memberships \cup {[userId |-> NewUserId, organizationId |-> NewOrgId]}
            /\ req' = [req EXCEPT ![r].pc = "seed",
                                  ![r].auth = [userId |-> NewUserId, organizationId |-> NewOrgId]]
            /\ resp' = NoResp

\* seed rows whose payroll is dated a month of thirty days before
sampleTransactionsPayrollMonthAgo(o, baseDate) ==
    SetToBag({
        [organizationId |-> o, description |-> "Seed round funding", amount |-> 150000,
         type |-> "INCOME", occurredAt |-> baseDate - 40],
        [organizationId |-> o, description |-> "Monthly payroll", amount |-> 52000,
         type |-> "EXPENSE", occurredAt |-> baseDate - 30],
        [organizationId |-> o, description |-> "Office rent", amount |-> 8000,
         type |-> "EXPENSE", occurredAt |-> baseDate - 10],
        [organizationId |-> o, description |-> "New client invoice", amount |-> 22000,
         type |-> "INCOME", occurredAt |-> baseDate - 5]})

\* sampleTransactions, baseDate = new Date()
sampleTransactions(o, baseDate) ==
    SetToBag({
        [organizationId |-> o, description |-> "Seed round funding", amount |-> 150000,
         type |-> "INCOME", occurredAt |-> baseDate - 40],
        [organizationId |-> o, description |-> "Monthly payroll", amount |-> 52000,
         type |-> "EXPENSE", occurredAt |-> baseDate - 20],
        [organizationId |-> o, description |-> "Office rent", amount |-> 8000,
         type |-> "EXPENSE", occurredAt |-> baseDate - 10],
        [organizationId |-> o, description |-> "New client invoice", amount |-> 22000,
         type |-> "INCOME", occurredAt |-> baseDate - 5]})

\* prisma.transaction.createMany, generateToken, the response
SignupSeed(r) ==
    /\ Quiet
    /\ req[r].op = "signup" /\ req[r].pc = "seed"
    /\ LET auth == req[r].auth
           token == generateToken(auth.userId, auth.organizationId)
       IN  /\ transactions' = transactions (+) sampleTransactions(auth.organizationId, now)
           /\ issued' = Issue(token)
           /\ resp' = Resp("signup", "none", 200, "", auth, req[r].email,
                           [token |-> token, organizations |-> getUserOrganizations(auth.userId)])
           /\ access' = [session |-> auth.organizationId, rows |-> {auth.organizationId}]
    /\ req' = [req EXCEPT ![r] = Idle]
    /\ UNCHANGED <<users, memberships, summaries, basis, now, created>>

-----------------------------------------------------------------------------
(* GET /api/v1/summary *)

\* authenticate, organization.findUnique, transaction.findMany
SummaryStart(r, c) ==
    /\ Quiet
    /\ req[r].pc = "idle"
    /\ authenticate(c.header)
    /\ LET auth == TokenPayload(c.header.token)
           found == OrderDesc(TxOfOrg(auth.organizationId))
       IN  /\ req' = [req EXCEPT ![r] = [Idle EXCEPT !.op = "summary", !.pc = "upsert", !.cred = c.kind,
                                                       !.auth = auth, !.txs = found]]
           /\ access' = [session |-> auth.organizationId, rows |-> OrgsOfSeq(found)]
    /\ resp' = NoResp
    /\ UNCHANGED <<users, memberships, transactions, summaries, basis, issued, now, created>>

\* now = new Date(), the three numbers, summary.upsert, res.json
SummaryUpsert(r) ==
    /\ Quiet
    /\ req[r].op = "summary" /\ req[r].pc = "upsert"
    /\ LET auth == req[r].auth
           txs == req[r].txs
           cash == cashOnHand(txs)
           burn == monthlyBurn(txs, burnWindow(now))
           runway == runwayMonths(cash, burn)
           table == upsertSummary(auth.organizationId, cash, burn, runway)
           summaryRecord == summaryRow(table, auth.organizationId)
       IN  /\ summaries' = table
           /\ basis' = {b \in basis : b.organizationId # auth.organizationId}
                            \cup {[organizationId |-> auth.organizationId, txs |-> txs]}
           /\ resp' = Resp("summary", req[r].cred, 200, "", auth,
                           [txs |-> txs, now |-> now,
                            before |-> {s \in summaries : s.organizationId = auth.organizationId}],
                           [cashOnHand |-> summaryRecord.cashOnHand,
                            monthlyBurn |-> summaryRecord.monthlyBurn,
                            runwayMonths |-> summaryRecord.runwayMonths,
                            updatedAt |-> summaryRecord.updatedAt])
           /\ access' = [session |-> auth.organizationId, rows |-> {summaryRecord.organizationId}]
    /\ req' = [req EXCEPT ![r] = Idle]
    /\ UNCHANGED <<users, memberships, transactions, issued, now, created>>

Summary(r) ==
    \/ \E c \in Credentials : Reject(c) \/ SummaryStart(r, c)
    \/ SummaryUpsert(r)

-----------------------------------------------------------------------------
(* POST /api/v1/auth/login *)

loginSchema(email, password) == IsEmail(email) /\ Len(password) >= 6

\* an include that returns the memberships of every user
membershipsOfEveryone(userId) == memberships

\* include: { memberships: true }: the memberships of the user found
membershipsOf(userId) == {m \in memberships : m.userId = userId}

Login(email, password) ==
    /\ Quiet
    /\ access' = NoAccess
    /\ UNCHANGED <<users, memberships, transactions, summaries, basis, now, created, req>>
    /\ IF ~loginSchema(email, password)
       THEN /\ resp' = Resp("login", "none", 400, "Invalid payload", NoAuth, email, <<>>)
            /\ UNCHANGED issued
       ELSE IF findUserByEmail(email) = {}
       THEN /\ resp' = Resp("login", "none", 401, "Invalid credentials", NoAuth, email, <<>>)
            /\ UNCHANGED issued
       ELSE LET user == CHOOSE u \in users : u.email = email
                own == membershipsOf(user.id)
            IN  IF ~bcryptCompare(password, user.passwordHash)
                THEN /\ resp' = Resp("login", "none", 401, "Invalid credentials", NoAuth, email, <<>>)
                     /\ UNCHANGED issued
                ELSE IF own = {}
                THEN /\ resp' = Resp("login", "none", 403, "No organization access", NoAuth, email, <<>>)
                     /\ UNCHANGED issued
                ELSE LET membership == CHOOSE m \in own : TRUE
                         token == generateToken(user.id, membership.organizationId)
                     IN  /\ issued' = Issue(token)
                         /\ resp' = Resp("login", "none", 200, "", TokenPayload(token), email,
                                         [token |-> token,
                                          organizations |-> getUserOrganizations(user.id)])

-----------------------------------------------------------------------------
(* GET /api/v1/auth/me, GET /api/v1/organizations, GET /api/v1/transactions *)

Me(c) ==
    /\ Quiet
    /\ authenticate(c.header)
    /\ LET auth == TokenPayload(c.header.token)
       IN  resp' = Resp("me", c.kind, 200, "", auth, <<>>,
                        [user |-> {u.id : u \in {x \in users : x.id = auth.userId}},
                         organization |-> {o \in OrgIds : o = auth.organizationId},
                         organizations |-> getUserOrganizations(auth.userId)])
    /\ access' = NoAccess
    /\ UNCHANGED <<users, memberships, transactions, summaries, basis, issued, now, created, req>>

ListOrganizations(c) ==
    /\ Quiet
    /\ authenticate(c.header)
    /\ LET auth == TokenPayload(c.header.token)
       IN  resp' = Resp("organizations", c.kind, 200, "", auth, <<>>,
                        getUserOrganizations(auth.userId))
    /\ access' = NoAccess
    /\ UNCHANGED <<users, memberships, transactions, summaries, basis, issued, now, created, req>>

\* take: 100
ListLimit == 100

\* a list that also refreshes the Summary row of the organization
ListTransactionsRefreshing(c) ==
    /\ Quiet
    /\ authenticate(c.header)
    /\ LET auth == TokenPayload(c.header.token)
           found == Take(OrderDesc(TxOfOrg(auth.organizationId)), ListLimit)
       IN  /\ resp' = Resp("list", c.kind, 200, "", auth, <<>>, found)
           /\ access' = [session |-> auth.organizationId, rows |-> OrgsOfSeq(found)]
           /\ summaries' = upsertSummary(auth.organizationId, cashOnHand(found), 0, 0)
    /\ UNCHANGED <<users, memberships, transactions, basis, issued, now, created, req>>

ListTransactions(c) ==
    /\ Quiet
    /\ authenticate(c.header)
    /\ LET auth == TokenPayload(c.header.token)
           found == Take(OrderDesc(TxOfOrg(auth.organizationId)), ListLimit)
       IN  /\ resp' = Resp("list", c.kind, 200, "", auth, <<>>, found)
           /\ access' = [session |-> auth.organizationId, rows |-> OrgsOfSeq(found)]
    /\ UNCHANGED <<users, memberships, transactions, summaries, basis, issued, now, created, req>>

-----------------------------------------------------------------------------
(* POST /api/v1/transactions *)

\* An optional field of a payload is [present, value]
Absent == [present |-> FALSE, value |-> <<0, 0, 0>>]
Given(v) == [present |-> TRUE, value |-> v]

\* a schema whose amount is nonnegative() instead of positive()
createTransactionSchemaNonNegative(p) ==
    /\ Len(p.description) >= 2
    /\ p.amount >= 0
    /\ p.type \in {"INCOME", "EXPENSE"}

\* description min(2), amount positive, type one of the enum (occurredAt is
\* any string)
createTransactionSchema(p) ==
    /\ Len(p.description) >= 2
    /\ p.amount > 0
    /\ p.type \in {"INCOME", "EXPENSE"}

\* the row prisma.transaction.create is given
newTransaction(p, o) ==
    [organizationId |-> o,
     description |-> p.description,
     amount |-> MathRound(p.amount),
     type |-> p.type,
     occurredAt |-> IF p.occurredAt.present THEN NewDate(p.occurredAt.value).time ELSE now]

CreateTransaction(c, p) ==
    /\ Quiet
    /\ authenticate(c.header)
    /\ LET auth == TokenPayload(c.header.token)
       IN  IF ~createTransactionSchema(p)
           THEN /\ resp' = Resp("create", c.kind, 400, "Invalid payload", auth, p, <<>>)
                /\ access' = NoAccess
                /\ UNCHANGED <<transactions, created>>
           ELSE IF p.occurredAt.present /\ ~NewDate(p.occurredAt.value).valid
           THEN \* prisma refuses an Invalid Date, the handler has no catch
                /\ \E e \in Unhandled :
                      resp' = Resp("create", c.kind, e.status, e.message, auth, p, <<>>)
                /\ access' = NoAccess
                /\ UNCHANGED <<transactions, created>>
           ELSE /\ created < MaxCreated
                /\ transactions' = transactions (+) SetToBag({newTransaction(p, auth.organizationId)})
                /\ created' = created + 1
                /\ resp' = Resp("create", c.kind, 201, "", auth, p,
                                newTransaction(p, auth.organizationId))
                /\ access' = [session |-> auth.organizationId,
                              rows |-> {newTransaction(p, auth.organizationId).organizationId}]
    /\ UNCHANGED <<users, memberships, summaries, basis, issued, now, req>>

-----------------------------------------------------------------------------
(* POST /api/v1/session/organization *)

\* organizationId: z.string().min(1); the empty string is organization 0
switchOrganizationSchema(organizationId) == organizationId # 0

SwitchOrganization(c, organizationId) ==
    /\ Quiet
    /\ authenticate(c.header)
    /\ access' = NoAccess
    /\ UNCHANGED <<users, memberships, transactions, summaries, basis, now, created, req>>
    /\ LET auth == TokenPayload(c.header.token)
       IN  IF ~switchOrganizationSchema(organizationId)
           THEN /\ resp' = Resp("switch", c.kind, 400, "Invalid payload", auth, organizationId, <<>>)
                /\ UNCHANGED issued
           ELSE IF findMembership(auth.userId, organizationId) = {}
           THEN /\ resp' = Resp("switch", c.kind, 403, "Access denied for organization", auth,
                                organizationId, <<>>)
                /\ UNCHANGED issued
           ELSE LET token == generateToken(auth.userId, organizationId)
                IN  /\ issued' = Issue(token)
                    /\ resp' = Resp("switch", c.kind, 200, "", auth, organizationId,
                                    [token |-> token, organization |-> organizationId])

-----------------------------------------------------------------------------
(* POST /api/v1/organizations/reset *)

resetOrganizationSchema(organizationId) == organizationId # 0

\* a reset that trusts the organizationId of the body
resetAllowedAlways(userId, organizationId) == TRUE

\* the membership the handler requires before it deletes
resetAllowed(userId, organizationId) == findMembership(userId, organizationId) # {}

\* authenticate, safeParse, membership.findFirst, transaction.deleteMany
ResetStart(r, c, organizationId) ==
    /\ Quiet
    /\ req[r].pc = "idle"
    /\ authenticate(c.header)
    /\ UNCHANGED <<users, memberships, summaries, basis, issued, now, created>>
    /\ LET auth == TokenPayload(c.header.token)
       IN  IF ~resetOrganizationSchema(organizationId)
           THEN /\ resp' = Resp("reset", c.kind, 400, "Invalid payload", auth, organizationId, <<>>)
                /\ access' = NoAccess
                /\ UNCHANGED <<transactions, req>>
           ELSE IF ~resetAllowed(auth.userId, organizationId)
           THEN /\ resp' = Resp("reset", c.kind, 403, "Access denied for organization", auth,
                                organizationId, <<>>)
                /\ access' = NoAccess
                /\ UNCHANGED <<transactions, req>>
           ELSE /\ transactions' = TxWithoutOrg(organizationId)
                /\ access' = [session |-> auth.organizationId,
                              rows |-> OrgsOfBag(TxOfOrg(organizationId))]
                /\ req' = [req EXCEPT ![r] = [Idle EXCEPT !.op = "reset", !.pc = "summary", !.cred = c.kind,
                                                           !.auth = auth, !.target = organizationId]]
                /\ resp' = NoResp

\* summary.deleteMany, res.json({ success: true })
ResetSummary(r) ==
    /\ Quiet
    /\ req[r].op = "reset" /\ req[r].pc = "summary"
    /\ summaries' = SummariesWithoutOrg(req[r].target)
    /\ basis' = {b \in basis : b.organizationId # req[r].target}
    /\ access' = [session |-> req[r].auth.organizationId,
                  rows |-> {s.organizationId : s \in {x \in summaries : x.organizationId = req[r].target}}]
    /\ resp' = Resp("reset", req[r].cred, 200, "", req[r].auth, req[r].target, [success |-> TRUE])
    /\ req' = [req EXCEPT ![r] = Idle]
    /\ UNCHANGED <<users, memberships, transactions, issued, now, created>>

-----------------------------------------------------------------------------
(* GET /api/v1/transactions/export *)

\* a filter whose upper bound is lt instead of lte
exportFilterUpperExclusive(row, o, from, to) ==
    /\ row.organizationId = o
    /\ from.present => row.occurredAt >= NewDate(from.value).time
    /\ to.present => row.occurredAt < NewDate(to.value).time

\* filters.occurredAt = { gte: new Date(from), lte: new Date(to) }
exportFilter(row, o, from, to) ==
    /\ row.organizationId = o
    /\ from.present => row.occurredAt >= NewDate(from.value).time
    /\ to.present => row.occurredAt <= NewDate(to.value).time

\* an amount printed without its sign
signedAmountUnsigned(row) == row.amount

\* signedAmount
signedAmount(row) == IF row.type = "EXPENSE" THEN -row.amount ELSE row.amount

\* one row of the document
exportRow(row) ==
    [description |-> row.description, type |-> row.type,
     amount |-> signedAmount(row), date |-> row.occurredAt]

\* one piece of text of the document, in the order doc.text writes them
NoRow == [description |-> "", type |-> "", amount |-> 0, date |-> 0]
Part(kind, row) == [kind |-> kind, row |-> row]

\* a document without the branch for an empty result
exportDocumentWithoutEmptyBranch(found, range) ==
    <<Part("title", NoRow)>>
    \o (IF range THEN <<Part("range", NoRow)>> ELSE <<>>)
    \o <<Part("columns", NoRow)>>
    \o [i \in DOMAIN found |-> Part("row", exportRow(found[i]))]

\* the title, the range line if (from || to), then either 'No transactions
\* found for the selected filters.' or the column titles and one line per
\* transaction
exportDocument(found, range) ==
    <<Part("title", NoRow)>>
    \o (IF range THEN <<Part("range", NoRow)>> ELSE <<>>)
    \o (IF Len(found) = 0 THEN <<Part("none", NoRow)>>
        ELSE <<Part("columns", NoRow)>>
             \o [i \in DOMAIN found |-> Part("row", exportRow(found[i]))])

ExportTransactions(c, from, to) ==
    /\ Quiet
    /\ authenticate(c.header)
    /\ UNCHANGED <<users, memberships, transactions, summaries, basis, issued, now, created, req>>
    /\ LET auth == TokenPayload(c.header.token)
           input == [from |-> from, to |-> to]
       IN  IF \/ from.present /\ ~NewDate(from.value).valid
              \/ to.present /\ ~NewDate(to.value).valid
           THEN \* prisma refuses an Invalid Date in the filter, no catch
                /\ \E e \in Unhandled :
                      resp' = Resp("export", c.kind, e.status, e.message, auth, input, <<>>)
                /\ access' = NoAccess
           ELSE LET found == OrderAsc(Restrict({row \in DOMAIN transactions :
                                          exportFilter(row, auth.organizationId, from, to)}))
                IN  /\ resp' = Resp("export", c.kind, 200, "", auth, input,
                                    [parts |-> exportDocument(found, from.present \/ to.present),
                                     ended |-> TRUE])
                    /\ access' = [session |-> auth.organizationId, rows |-> OrgsOfSeq(found)]

-----------------------------------------------------------------------------
(* The clock *)

Tick ==
    /\ Quiet
    /\ \E d \in TickSteps :
          /\ now + d <= StartDay + MaxElapsed
          /\ now' = now + d
    /\ resp' = NoResp
    /\ access' = NoAccess
    /\ UNCHANGED <<users, memberships, transactions, summaries, basis, issued, created, req>>

-----------------------------------------------------------------------------
(* What clients send *)

Emails == {<<"ann", "x.io">>, <<"bob", "x.io">>, <<"ann", "">>}
TimedEmails == {<<"ann", "x.io">>, <<"ann", "">>}
Passwords == {"secret1", "secret2", "short"}
SignupPasswords == {"secret1", "short"}
OrganizationNames == {"Acme", "A"}
\* the empty string, the two organizations, one that does not exist
OrganizationIds == {0, 11, 12, 13}

\* two payloads the schema accepts (2.5 now; 0.4 on 2023-03-03), and the
\* first with one field changed: a short description, amounts 0 and -1, a
\* type outside the enum, a date that does not exist
Typical == [description |-> "Rent", amount |-> 25, type |-> "EXPENSE", occurredAt |-> Absent]
Payloads ==
    {Typical,
     [description |-> "Fee", amount |-> 4, type |-> "INCOME", occurredAt |-> Given(<<2023, 3, 3>>)],
     [Typical EXCEPT !.description = "R"],
     [Typical EXCEPT !.amount = 0],
     [Typical EXCEPT !.amount = -10],
     [Typical EXCEPT !.type = "TRANSFER"],
     [Typical EXCEPT !.occurredAt = Given(<<2023, 13, 1>>)]}

\* the ranges of an export: none, from 2023-02-19, to 2023-02-19, between
\* 2023-02-19 and 2023-02-24, from 2023-04-01 (after every row), and a month
\* that does not exist
ExportRanges ==
    {<<Absent, Absent>>,
     <<Given(<<2023, 2, 19>>), Absent>>,
     <<Absent, Given(<<2023, 2, 19>>)>>,
     <<Given(<<2023, 2, 19>>), Given(<<2023, 2, 24>>)>>,
     <<Given(<<2023, 4, 1>>), Absent>>,
     <<Given(<<2023, 13, 1>>), Absent>>}

-----------------------------------------------------------------------------
(* The specification *)

Init ==
    /\ users = {}
    /\ memberships = {}
    /\ transactions = EmptyBag
    /\ summaries = {}
    /\ issued = {}
    /\ now = StartDay
    /\ created = 0
    /\ req = [r \in Slots |-> Idle]
    /\ resp = NoResp
    /\ access = NoAccess
    /\ basis = {}

Signup(r, emails) ==
    \/ \E email \in emails, password \in SignupPasswords, name \in OrganizationNames :
          SignupStart(r, email, password, name)
    \/ SignupCreate(r)
    \/ SignupSeed(r)

Reset(r) ==
    \/ \E c \in Credentials : Reject(c)
    \/ \E c \in Credentials, o \in OrganizationIds : ResetStart(r, c, o)
    \/ ResetSummary(r)

Unprotected(emails) == \E email \in emails, password \in Passwords : Login(email, password)

Reads ==
    \/ \E c \in Credentials : Reject(c) \/ Me(c)
    \/ \E c \in Credentials : Reject(c) \/ ListOrganizations(c)
    \/ \E c \in Credentials : Reject(c) \/ ListTransactions(c)
    \/ \E c \in Credentials : Reject(c)
    \/ \E c \in Credentials, range \in ExportRanges :
          ExportTransactions(c, range[1], range[2])

Create ==
    \/ \E c \in Credentials : Reject(c)
    \/ \E c \in Credentials, p \in Payloads : CreateTransaction(c, p)

Switch ==
    \/ \E c \in Credentials : Reject(c)
    \/ \E c \in Credentials, o \in OrganizationIds : SwitchOrganization(c, o)

\* the response and the access log of the last step are taken
Observe ==
    /\ ~Quiet
    /\ resp' = NoResp
    /\ access' = NoAccess
    /\ UNCHANGED <<users, memberships, transactions, summaries, basis, issued, now, created, req>>

\* the API used by the clients whose addresses are emails, one request of
\* several steps at a time
Api(emails) ==
    \/ Observe
    \/ \E r \in MainSlots : Signup(r, emails)
    \/ \E r \in MainSlots : Summary(r)
    \/ \E r \in MainSlots : Reset(r)
    \/ Unprotected(emails)
    \/ Reads
    \/ Create
    \/ Switch

\* Two users and their organizations, at one instant
Next == Api(Emails)

Spec == Init /\ [][Next]_vars

\* One user and their organization, as time passes
TimedNext == Api(TimedEmails) \/ Tick

TimedSpec == Init /\ [][TimedNext]_vars

-----------------------------------------------------------------------------
(* The summary handler over the ledgers of one organization *)

\* the instants of the requests: 2023-03-28, 2023-03-31 and 2023-04-03
CalcNows == {31 + 28 + 27, 31 + 28 + 30, 31 + 28 + 31 + 2}
\* the dates of the rows: 2023-02-28 and 2023-03-03
CalcDates == {31 + 27, 31 + 28 + 2}
\* the amounts of the seed rows, and two small amounts whose quotients fall
\* half way between two tenths
SeedAmounts == {8000, 22000, 52000, 150000}
SmallAmounts == {7, 20}

CalcRows(amounts) ==
    [organizationId : {11}, description : {"Rent"}, amount : amounts,
     type : {"INCOME", "EXPENSE"}, occurredAt : CalcDates]

RECURSIVE LedgersOfSize(_, _)
LedgersOfSize(rows, n) ==
    IF n = 0 THEN {EmptyBag}
    ELSE {b (+) SetToBag({row}) : b \in LedgersOfSize(rows, n - 1), row \in rows}

\* every ledger of at most CalcMaxTx rows, all of seed amounts or all of small
\* amounts
CalcLedgers ==
    UNION {LedgersOfSize(CalcRows(SeedAmounts), n) \cup LedgersOfSize(CalcRows(SmallAmounts), n) :
             n \in 0..CalcMaxTx}

\* One user has signed up and logged in, and the organization's ledger is any
\* of CalcLedgers
CalcInit ==
    /\ users = {[id |-> 1, email |-> <<"ann", "x.io">>, passwordHash |-> bcryptHash("secret1")]}
    /\ memberships = {[userId |-> 1, organizationId |-> 11]}
    /\ transactions \in CalcLedgers
    /\ summaries = {}
    /\ now \in CalcNows
    /\ issued = {[userId |-> 1, organizationId |-> 11, exp |-> now + TokenTTL, signed |-> TRUE]}
    /\ created = 0
    /\ req = [r \in Slots |-> Idle]
    /\ resp = NoResp
    /\ access = NoAccess
    /\ basis = {}

CalcNext ==
    \/ Observe
    \/ \E r \in MainSlots, c \in Credentials : SummaryStart(r, c)
    \/ \E r \in MainSlots : SummaryUpsert(r)

CalcSpec == CalcInit /\ [][CalcNext]_vars

-----------------------------------------------------------------------------
(* Summary requests that overlap, and transactions created meanwhile *)

\* One user has signed up at the first instant
SignedUp ==
    /\ users = {[id |-> 1, email |-> <<"ann", "x.io">>, passwordHash |-> bcryptHash("secret1")]}
    /\ memberships = {[userId |-> 1, organizationId |-> 11]}
    /\ summaries = {}
    /\ now = StartDay
    /\ issued = {[userId |-> 1, organizationId |-> 11, exp |-> StartDay + TokenTTL, signed |-> TRUE]}
    /\ created = 0
    /\ req = [r \in Slots |-> Idle]
    /\ resp = NoResp
    /\ access = NoAccess
    /\ basis = {}

RaceInit == SignedUp /\ transactions = sampleTransactions(11, StartDay)

RaceNext ==
    \/ Observe
    \/ \E r \in Slots, c \in Credentials : SummaryStart(r, c)
    \/ \E r \in Slots : SummaryUpsert(r)
    \/ Create

RaceSpec == RaceInit /\ [][RaceNext]_vars

-----------------------------------------------------------------------------
(* Summary requests repeated as time passes, the ledger never written *)

\* the dates of the rows: 2023-01-31, 2023-02-15 and 2023-02-28
RepeatDates == {30, 31 + 14, 31 + 27}

RepeatRows ==
    [organizationId : {11}, description : {"Rent"}, amount : SmallAmounts,
     type : {"INCOME", "EXPENSE"}, occurredAt : RepeatDates]

\* the ledger a signup seeds, and every ledger of at most RepeatMaxTx rows
RepeatLedgers ==
    {sampleTransactions(11, StartDay)}
        \cup UNION {LedgersOfSize(RepeatRows, n) : n \in 0..RepeatMaxTx}

RepeatInit == SignedUp /\ transactions \in RepeatLedgers

RepeatNext ==
    \/ Observe
    \/ \E r \in MainSlots, c \in Credentials : SummaryStart(r, c)
    \/ \E r \in MainSlots : SummaryUpsert(r)
    \/ Unprotected(TimedEmails)
    \/ Tick

RepeatSpec == RepeatInit /\ [][RepeatNext]_vars

-----------------------------------------------------------------------------
(* Signups that overlap *)

ConflictNext ==
    \/ Observe
    \/ \E r \in Slots : Signup(r, Emails)

ConflictSpec == Init /\ [][ConflictNext]_vars

-----------------------------------------------------------------------------
(* Store calls that fail *)

\* the operations whose handlers call the store
UnprotectedOps == {"signup", "login"}
ProtectedOps == {"summary", "create", "list", "export", "switch", "reset"}

\* the first store call of a handler rejects (the database cannot be
\* reached): the await throws, nothing has been written
StoreFailure(op, c) ==
    /\ Quiet
    /\ \/ op \in UnprotectedOps /\ c.kind = "missing"
       \/ op \in ProtectedOps /\ authenticate(c.header)
    /\ \E e \in Unhandled :
          resp' = Resp(op, IF op \in UnprotectedOps THEN "none" ELSE c.kind, e.status, e.message,
                       IF op \in UnprotectedOps THEN NoAuth ELSE TokenPayload(c.header.token),
                       <<>>, <<>>)
    /\ access' = NoAccess
    /\ UNCHANGED <<users, memberships, transactions, summaries, basis, issued, now, created, req>>

\* a later store call of a request in flight rejects: what the earlier calls
\* wrote stays written
StoreFailureInFlight(r) ==
    /\ Quiet
    /\ req[r].pc # "idle"
    /\ \E e \in Unhandled :
          resp' = Resp(req[r].op, req[r].cred, e.status, e.message, req[r].auth, <<>>, <<>>)
    /\ req' = [req EXCEPT ![r] = Idle]
    /\ access' = NoAccess
    /\ UNCHANGED <<users, memberships, transactions, summaries, basis, issued, now, created>>

FaultNext ==
    \/ Api(TimedEmails)
    \/ \E op \in UnprotectedOps \cup ProtectedOps, c \in Credentials : StoreFailure(op, c)
    \/ \E r \in MainSlots : StoreFailureInFlight(r)

FaultSpec == Init /\ [][FaultNext]_vars

-----------------------------------------------------------------------------
(* A reset that overlaps summary requests *)

ResetRaceNext ==
    \/ Observe
    \/ \E r \in Slots, c \in Credentials : SummaryStart(r, c)
    \/ \E r \in Slots : SummaryUpsert(r)
    \/ \E r \in Slots : Reset(r)

ResetRaceSpec == RaceInit /\ [][ResetRaceNext]_vars

-----------------------------------------------------------------------------
(* Signups on several days, each followed by summary requests *)

\* 2023-01-01, 2023-03-01, 2023-03-30, 2023-03-31, 2024-02-29
SignupDays == {0, 31 + 28, 31 + 28 + 29, 31 + 28 + 30, 365 + 31 + 28}

SeedInit ==
    /\ users = {}
    /\ memberships = {}
    /\ transactions = EmptyBag
    /\ summaries = {}
    /\ issued = {}
    /\ now \in SignupDays
    /\ created = 0
    /\ req = [r \in Slots |-> Idle]
    /\ resp = NoResp
    /\ access = NoAccess
    /\ basis = {}

SeedNext ==
    \/ Observe
    \/ \E r \in MainSlots : Signup(r, Emails)
    \/ \E r \in MainSlots : Summary(r)

SeedSpec == SeedInit /\ [][SeedNext]_vars

-----------------------------------------------------------------------------
(* The summary: claims C1 to C5 *)

SummaryAnswered == resp.op = "summary" /\ resp.status = 200

\* the sum of the amounts of the given rows of a bag, every copy counted
RECURSIVE SumRows(_, _)
SumRows(b, rows) ==
    IF rows = {} THEN 0
    ELSE LET row == CHOOSE x \in rows : TRUE
         IN  b[row] * row.amount + SumRows(b, rows \ {row})

\* C1: every 200 response of GET /api/v1/summary carries the three numbers
\* the calculator gives for the transactions that same request read, at the
\* instant it computed, and the Summary row of the organization holds exactly
\* these numbers, written by this request, when the response is sent.
C1_SummaryRecomputed ==
    SummaryAnswered =>
        LET txs == resp.input.txs
            cash == cashOnHand(txs)
            burn == monthlyBurn(txs, burnWindow(resp.input.now))
        IN  /\ resp.body.cashOnHand = cash
            /\ resp.body.monthlyBurn = burn
            /\ resp.body.runwayMonths = runwayMonths(cash, burn)
            /\ \E s \in summaries :
                  /\ s.organizationId = resp.auth.organizationId
                  /\ s.cashOnHand = cash
                  /\ s.monthlyBurn = burn
                  /\ s.runwayMonths = runwayMonths(cash, burn)
                  /\ s.updatedAt = resp.input.now

\* a summary answered from the four rows it read while the ledger already
\* holds a fifth, over a Summary row an earlier request had stored
C1_Witness ==
    /\ SummaryAnswered
    /\ Len(resp.input.txs) = 4
    /\ BagCardinality(TxOfOrg(resp.auth.organizationId)) = 5
    /\ resp.body.cashOnHand = 112000

\* C2: cashOnHand is the sum of the amounts of all INCOME rows of the
\* organization minus the sum of the amounts of all its EXPENSE rows, whatever
\* their dates, with no rounding.
C2_CashOnHand ==
    SummaryAnswered =>
        LET T == TxOfOrg(resp.auth.organizationId)
        IN  resp.body.cashOnHand =
                SumRows(T, {row \in DOMAIN T : row.type = "INCOME"})
                - SumRows(T, {row \in DOMAIN T : row.type = "EXPENSE"})

\* a summary over income and expenses, one expense older than the burn window
C2_Witness ==
    /\ SummaryAnswered
    /\ resp.body.cashOnHand = 150000 - 52000 - 8000
    /\ resp.body.monthlyBurn = 8000

\* now minus one calendar month: the same day of the previous month, or the
\* last day of that month when it has no such day
WindowStart(t) ==
    LET first == MakeDay(getFullYear(t), getMonth(t) - 1, 1)
        days == DaysInMonth(getFullYear(first), getMonth(first))
    IN  first + (IF getDate(t) <= days THEN getDate(t) ELSE days) - 1

\* C3: monthlyBurn is the sum of the amounts of exactly the EXPENSE rows whose
\* occurredAt is on or after the window start, now minus one calendar month,
\* the start itself included; INCOME rows and earlier EXPENSE rows are left out.
C3_MonthlyBurn ==
    SummaryAnswered =>
        LET T == TxOfOrg(resp.auth.organizationId)
            start == WindowStart(resp.input.now)
        IN  resp.body.monthlyBurn =
                SumRows(T, {row \in DOMAIN T : row.type = "EXPENSE" /\ row.occurredAt >= start})

\* C4: a summary request is always answered; when monthlyBurn is 0 the
\* runway is 0 whatever cashOnHand is, and an organization without
\* transactions gets 0, 0 and 0.
C4_ZeroBurn ==
    resp.op = "summary" =>
        /\ resp.status = 200
        /\ resp.body.monthlyBurn = 0 => resp.body.runwayMonths = 0
        /\ TxOfOrg(resp.auth.organizationId) = EmptyBag =>
              /\ resp.body.cashOnHand = 0
              /\ resp.body.monthlyBurn = 0
              /\ resp.body.runwayMonths = 0

\* no burn and a negative balance
C4_Witness ==
    /\ SummaryAnswered
    /\ resp.body.monthlyBurn = 0
    /\ resp.body.cashOnHand < 0

\* Scenario A: one income of 150000 and expenses of 52000, 8000 and 22000,
\* dated d[1] to d[4]
ScenarioA(d) ==
    SetToBag({[organizationId |-> 11, description |-> "Rent", amount |-> 150000,
               type |-> "INCOME", occurredAt |-> d[1]]})
    (+) SetToBag({[organizationId |-> 11, description |-> "Rent", amount |-> 52000,
                   type |-> "EXPENSE", occurredAt |-> d[2]]})
    (+) SetToBag({[organizationId |-> 11, description |-> "Rent", amount |-> 8000,
                   type |-> "EXPENSE", occurredAt |-> d[3]]})
    (+) SetToBag({[organizationId |-> 11, description |-> "Rent", amount |-> 22000,
                   type |-> "EXPENSE", occurredAt |-> d[4]]})

\* the expenses of Scenario A are on or after 2023-02-28, which is inside the
\* burn window of a request made on 2023-03-28
IsScenarioA ==
    /\ resp.input.now = 31 + 28 + 27
    /\ \E d \in [1..4 -> CalcDates] : transactions = ScenarioA(d)

\* C5: when monthlyBurn > 0 the runway is a tenth nearest to
\* cashOnHand / monthlyBurn (at most 0.05 away, for a negative balance too),
\* and Scenario A gives 68000, 82000 and 0.8.
C5_Runway ==
    SummaryAnswered =>
        /\ resp.body.monthlyBurn > 0 =>
              Abs(20 * resp.body.cashOnHand - 2 * resp.body.runwayMonths * resp.body.monthlyBurn)
                  <= resp.body.monthlyBurn
        /\ IsScenarioA =>
              /\ resp.body.cashOnHand = 68000
              /\ resp.body.monthlyBurn = 82000
              /\ resp.body.runwayMonths = 8

C5_Witness == SummaryAnswered /\ IsScenarioA /\ resp.body.runwayMonths = 8

-----------------------------------------------------------------------------
(* Isolation, the ledger, validation and authentication: claims C6 to C10 *)

\* C6: every operation that runs with a session touches (reads, creates,
\* modifies, deletes) only transactions and Summary rows of the session's
\* organization; this holds of summary, list, create, export and of reset,
\* whose target comes from the request body.
C6_Isolation == access.rows \subseteq {access.session}

\* a reset has just deleted the rows of the session's organization while the
\* other organization keeps its own
C6_Witness ==
    /\ req[1].op = "reset" /\ req[1].pc = "summary"
    /\ access.session = 11 /\ access.rows = {11}
    /\ TxOfOrg(12) # EmptyBag

\* C7: the ledger is append-only: a persisted transaction stays in the
\* store, every field unchanged, in all later states.
C7_AppendOnly ==
    [][\A row \in DOMAIN transactions :
          CopiesIn(row, transactions') >= CopiesIn(row, transactions)]_vars

\* C7 as amended: a persisted transaction leaves the store only in the
\* deleteMany of a reset of its own organization, asked by a member of that
\* organization; nothing else removes or changes it.
C7_RemovedOnlyByReset ==
    [][\A row \in DOMAIN transactions :
          CopiesIn(row, transactions') < CopiesIn(row, transactions) =>
              \E r \in Slots :
                  /\ req[r].pc = "idle"
                  /\ req'[r].op = "reset" /\ req'[r].pc = "summary"
                  /\ req'[r].target = row.organizationId
                  /\ findMembership(req'[r].auth.userId, row.organizationId) # {}]_vars

\* the reset of one organization has emptied its ledger and the other
\* organization still has its four rows
C7_Witness ==
    /\ req[1].op = "reset" /\ req[1].pc = "summary"
    /\ TxOfOrg(req[1].target) = EmptyBag
    /\ \E o \in OrgIds : BagCardinality(TxOfOrg(o)) = 4

\* C8: every stored transaction has an amount > 0, for every input that
\* createTransaction accepts, fractional amounts included.
C8_PositiveAmounts == \A row \in DOMAIN transactions : row.amount > 0

\* what the contract of createTransaction refuses
Refused(p) ==
    \/ p.amount <= 0
    \/ Len(p.description) < 2
    \/ p.type \notin {"INCOME", "EXPENSE"}

\* C9: a createTransaction request with a valid session and an amount of 0 or
\* less, a description of fewer than 2 characters or a type other than INCOME
\* and EXPENSE is answered 400 Invalid payload, and the transactions and the
\* Summary rows are what they were.
C9_ValidationFailure ==
    [][(resp'.op = "create" /\ Refused(resp'.input)) =>
          /\ resp'.status = 400
          /\ resp'.message = "Invalid payload"
          /\ transactions' = transactions
          /\ summaries' = summaries]_vars

\* an amount of 0 refused for a member whose organization has a ledger
C9_Witness ==
    /\ resp.op = "create" /\ resp.status = 400
    /\ resp.cred = "valid"
    /\ resp.input.amount = 0
    /\ TxOfOrg(resp.auth.organizationId) # EmptyBag

\* the credentials authenticate must refuse
Unauthorized == {"missing", "malformed", "forged", "expired"}

\* C10: a request to a protected operation with a missing, malformed, forged
\* or expired token is answered 401 by authenticate: no handler validates its
\* payload or runs a step for it, and the store is what it was.
C10_AuthenticateFirst ==
    [][/\ resp'.cred \in Unauthorized =>
              /\ resp'.op = "authenticate"
              /\ resp'.status = 401
              /\ store' = store
              /\ issued' = issued
              /\ req' = req
              /\ access' = NoAccess
       /\ \A r \in Slots : req'[r].cred \notin Unauthorized]_vars

\* a token refused after its seven days, the store holding the user's rows
C10_Witness ==
    /\ resp.cred = "expired" /\ resp.status = 401
    /\ transactions # EmptyBag

-----------------------------------------------------------------------------
(* Sessions and the Summary table: claims C11 to C17 *)

\* a Membership links the user to the organization
IsMember(userId, organizationId) ==
    \E m \in memberships : m.userId = userId /\ m.organizationId = organizationId

\* C11: a switchOrganization request issues a token exactly when a Membership
\* links the caller to the requested organization at that time; the token
\* then carries the caller's userId and the requested organizationId;
\* otherwise the request fails (403 Access denied, or 400 when the requested
\* organizationId is the empty string) and no token is issued.
C11_SwitchIffMember ==
    [][resp'.op = "switch" =>
          IF IsMember(resp'.auth.userId, resp'.input)
          THEN /\ resp'.status = 200
               /\ resp'.body.token.userId = resp'.auth.userId
               /\ resp'.body.token.organizationId = resp'.input
               /\ resp'.body.token.signed
               /\ resp'.body.token \in issued'
          ELSE /\ resp'.status \in {400, 403}
               /\ (resp'.status = 403) <=> (resp'.input # 0)
               /\ issued' = issued
               /\ resp'.body = <<>>]_vars

\* Scenario D: the first user asks for the organization of the second
C11_Witness ==
    /\ resp.op = "switch" /\ resp.status = 403
    /\ resp.auth.userId = 1 /\ resp.input = 12
    /\ 12 \in OrgIds

\* C12: a token issued to a user who already holds a token of another
\* organization is issued by a successful switchOrganization: signup and
\* login never move a user to another organization.
C12_OnlySwitchMoves ==
    [][(resp'.status = 200 /\ resp'.op \in {"signup", "login", "switch"}) =>
          ((\E t \in issued : /\ t.userId = resp'.body.token.userId
                              /\ t.organizationId # resp'.body.token.organizationId)
              => resp'.op = "switch")]_vars

\* the second user logs in, after both users signed up, and is in their own
\* organization
C12_Witness ==
    /\ resp.op = "login" /\ resp.status = 200
    /\ resp.body.token.userId = 2 /\ resp.body.token.organizationId = 12
    /\ \E t \in issued : t.userId = 1

\* C13: the Summary table never holds two rows of one organization, also
\* when summary requests of the organization overlap and no row existed.
C13_AtMostOneSummary ==
    \A s1, s2 \in summaries : s1.organizationId = s2.organizationId => s1 = s2

\* the first of two overlapping requests has created the row, the other has
\* read its transactions and has yet to upsert
C13_Witness ==
    /\ SummaryAnswered
    /\ resp.input.before = {}
    /\ \E r \in Slots : req[r].op = "summary" /\ req[r].pc = "upsert"

SummariesOf(table, o) == {s \in table : s.organizationId = o}

\* C14: every organization owns exactly one Summary row in every state.
C14_ExactlyOneSummary == \A o \in OrgIds : Cardinality(SummariesOf(summaries, o)) = 1

\* C14 as amended: an organization owns at most one Summary row; it owns
\* one when a summary request of the organization has been answered, and the
\* row disappears only in an organization reset of that organization.
C14_OneOnceComputed ==
    [][\A o \in OrgIds :
          /\ Cardinality(SummariesOf(summaries', o)) <= 1
          /\ (resp'.op = "summary" /\ resp'.auth.organizationId = o) =>
                Cardinality(SummariesOf(summaries', o)) = 1
          /\ Cardinality(SummariesOf(summaries', o)) < Cardinality(SummariesOf(summaries, o)) =>
                (resp'.op = "reset" /\ resp'.status = 200 /\ resp'.input = o)]_vars

\* a reset has removed the row of one organization, the other keeps its own
C14_Witness ==
    /\ resp.op = "reset" /\ resp.status = 200
    /\ SummariesOf(summaries, resp.input) = {}
    /\ \E o \in OrgIds : SummariesOf(summaries, o) # {}

\* the EXPENSE rows of an organization inside the burn window of an instant,
\* the window the handler computes
InWindow(o, t) ==
    {row \in DOMAIN TxOfOrg(o) :
        row.type = "EXPENSE" /\ row.occurredAt >= setMonth(t, getMonth(t) - 1)}

\* C15: a summary request that follows another one of the same organization,
\* no transaction written in between, answers the cashOnHand, monthlyBurn and
\* runwayMonths the first one stored, whatever the two instants.
C15_Idempotent ==
    SummaryAnswered =>
        \A s \in resp.input.before :
            /\ resp.body.cashOnHand = s.cashOnHand
            /\ resp.body.monthlyBurn = s.monthlyBurn
            /\ resp.body.runwayMonths = s.runwayMonths

\* C15 as amended: the second request answers the same cashOnHand, and the
\* same monthlyBurn and runwayMonths when the instants of the two requests
\* have the same EXPENSE rows in their burn windows (as when they are equal).
C15_IdempotentSameWindow ==
    SummaryAnswered =>
        \A s \in resp.input.before :
            /\ resp.body.cashOnHand = s.cashOnHand
            /\ InWindow(s.organizationId, s.updatedAt) = InWindow(s.organizationId, resp.input.now) =>
                  /\ resp.body.monthlyBurn = s.monthlyBurn
                  /\ resp.body.runwayMonths = s.runwayMonths

\* a second request ten days after the first, an expense in both windows
C15_Witness ==
    /\ SummaryAnswered
    /\ \E s \in resp.input.before : s.updatedAt = StartDay
    /\ resp.input.now = StartDay + 10
    /\ resp.body.monthlyBurn > 0

\* the bag of the rows of an array
RECURSIVE BagOfSeq(_)
BagOfSeq(txs) ==
    IF txs = <<>> THEN EmptyBag ELSE SetToBag({Head(txs)}) (+) BagOfSeq(Tail(txs))

\* C16: when summary requests of one organization overlap, with transactions
\* created meanwhile, the writer whose upsert lands last has read at least
\* the transactions the earlier writer had read: the stored Summary row
\* never goes back to the result of a less complete set.
C16_NeverLessComplete ==
    [][\A b1 \in basis, b2 \in basis' :
          b1.organizationId = b2.organizationId =>
              BagOfSeq(b1.txs) \sqsubseteq BagOfSeq(b2.txs)]_vars

\* C17: the burn window of a summary request starts at now minus one calendar
\* month, at the last day of the previous month when that month has no such
\* day, and not thirty days before now.
C17_WindowStart ==
    SummaryAnswered => burnWindow(resp.input.now) = WindowStart(resp.input.now)

-----------------------------------------------------------------------------
(* The export: claims C18 to C20 *)

\* the instant a bound "YYYY-MM-DD" names
InstantOf(v) == DaysBeforeYear(v[1]) + DaysBeforeMonth(v[1], v[2] - 1) + v[3] - 1

\* both bounds of a request, when given, name a date
BoundsAreDates(input) ==
    /\ input.from.present => IsDateString(input.from.value)
    /\ input.to.present => IsDateString(input.to.value)

\* the rows of organization o with from <= occurredAt <= to
Selected(o, input) ==
    {row \in DOMAIN transactions :
        /\ row.organizationId = o
        /\ input.from.present => row.occurredAt >= InstantOf(input.from.value)
        /\ input.to.present => row.occurredAt <= InstantOf(input.to.value)}

\* the transaction lines of a document, in order
LinesOf(parts) == SelectSeq(parts, LAMBDA part : part.kind = "row")

\* a line shows this transaction, whatever the sign of its amount
Shows(line, row) ==
    /\ line.row.description = row.description
    /\ line.row.type = row.type
    /\ Abs(line.row.amount) = row.amount
    /\ line.row.date = row.occurredAt

ExportAnswered == resp.op = "export" /\ resp.status = 200

\* C18: an export with bounds from and to, each optional, is answered with a
\* document that has one line per transaction of the session's organization
\* with from <= occurredAt <= to, no other line, in ascending order of
\* occurredAt.
C18_ExportSelection ==
    (resp.op = "export" /\ BoundsAreDates(resp.input)) =>
        /\ resp.status = 200
        /\ LET lines == LinesOf(resp.body.parts)
               sel == Selected(resp.auth.organizationId, resp.input)
           IN  /\ Len(lines) = BagCardinality(Restrict(sel))
               /\ \A row \in sel :
                     Cardinality({i \in DOMAIN lines : Shows(lines[i], row)}) = transactions[row]
               /\ \A i, j \in DOMAIN lines : i < j => lines[i].row.date <= lines[j].row.date

\* between 2023-02-19 and 2023-02-24, both dates included, of the six dates of
\* two organizations
C18_Witness ==
    /\ ExportAnswered
    /\ resp.input.from.present /\ resp.input.to.present
    /\ Len(LinesOf(resp.body.parts)) = 2
    /\ LinesOf(resp.body.parts)[1].row.date = InstantOf(resp.input.from.value)
    /\ LinesOf(resp.body.parts)[2].row.date = InstantOf(resp.input.to.value)
    /\ Cardinality(OrgIds) = 2

RECURSIVE SumOfLines(_)
SumOfLines(lines) ==
    IF lines = <<>> THEN 0 ELSE Head(lines).row.amount + SumOfLines(Tail(lines))

\* C19: every line of an export shows -amount for an EXPENSE and +amount for
\* an INCOME, and the amounts of the lines of an export without bounds add up
\* to the cashOnHand of the summary of the same transactions.
C19_SignedAmounts ==
    ExportAnswered =>
        LET lines == LinesOf(resp.body.parts)
            T == TxOfOrg(resp.auth.organizationId)
        IN  /\ \A i \in DOMAIN lines :
                  \E row \in DOMAIN T :
                      /\ Shows(lines[i], row)
                      /\ lines[i].row.amount =
                            IF row.type = "EXPENSE" THEN -row.amount ELSE row.amount
            /\ (~resp.input.from.present /\ ~resp.input.to.present) =>
                  SumOfLines(lines) = cashOnHand(OrderDesc(T))

\* the whole ledger, the four seeded rows and one created, incomes and
\* expenses
C19_Witness ==
    /\ ExportAnswered
    /\ ~resp.input.from.present /\ ~resp.input.to.present
    /\ Len(LinesOf(resp.body.parts)) = 5
    /\ \E i \in 1..5 : LinesOf(resp.body.parts)[i].row.amount < 0

\* C20: an export whose filter selects no transaction is answered all the
\* same: the title (and the range line when a bound was given), then the text
\* that no transactions were found, no column titles, no line, and the
\* document is ended.
C20_EmptyExport ==
    (/\ resp.op = "export"
     /\ BoundsAreDates(resp.input)
     /\ Selected(resp.auth.organizationId, resp.input) = {}) =>
        /\ resp.status = 200
        /\ resp.body.ended
        /\ resp.body.parts =
              <<Part("title", NoRow)>>
              \o (IF resp.input.from.present \/ resp.input.to.present
                  THEN <<Part("range", NoRow)>> ELSE <<>>)
              \o <<Part("none", NoRow)>>

\* Scenario C: from 2023-04-01, after every transaction of the organization
C20_Witness ==
    /\ ExportAnswered
    /\ resp.input.from = Given(<<2023, 4, 1>>)
    /\ TxOfOrg(resp.auth.organizationId) # EmptyBag
    /\ resp.body.parts[Len(resp.body.parts)].kind = "none"

-----------------------------------------------------------------------------
(* Frames, failures and memberships: claims C21 to C30 *)

\* C21: a step of exportTransactions, listTransactions or switchOrganization,
\* answered or refused, leaves users, memberships, transactions and Summary
\* rows as they were, and no request in flight is touched: the server keeps
\* no session that a switch could change.
C21_ReadOnly ==
    [][resp'.op \in {"export", "list", "switch"} => (store' = store /\ req' = req)]_vars

\* a switch answered with a token while the store holds two users, their
\* ledgers and a Summary row
C21_Witness ==
    /\ resp.op = "switch" /\ resp.status = 200
    /\ Cardinality(users) = 2
    /\ summaries # {}
    /\ transactions # EmptyBag

\* the response the claims call a ConflictFailure, and nothing created
ConflictFailure ==
    /\ resp'.status = 409
    /\ resp'.message = "Account already exists"
    /\ store' = store

\* C22: a signup that passes validation and whose email belongs to a user,
\* when the handler looks it up or when it creates the user (another signup
\* of the same email got there first), is answered 409 Account already
\* exists and creates nothing.
C22_DuplicateEmailConflict ==
    [][\A r \in Slots :
          /\ \A email \in Emails, password \in SignupPasswords, name \in OrganizationNames :
                (/\ SignupStart(r, email, password, name)
                 /\ signupSchema(email, password, name)
                 /\ findUserByEmail(email) # {}) => ConflictFailure
          /\ (SignupCreate(r) /\ findUserByEmail(req[r].email) # {}) => ConflictFailure]_vars

\* a store call of the request has failed
StoreCallFailed == \E e \in Unhandled : resp.message = e.message

\* C23: a request one of whose store calls fails is answered with an
\* internal error (status 500), whatever the operation.
C23_StoreFailureSurfaced == StoreCallFailed => resp.status = 500

\* C24: a createTransaction request whose other fields are valid and whose
\* occurredAt is given and names no instant is answered 400 Invalid payload
\* and stores no row.
C24_InvalidDateRefused ==
    [][(/\ resp'.op = "create"
        /\ resp'.input # <<>>
        /\ createTransactionSchema(resp'.input)
        /\ resp'.input.occurredAt.present
        /\ ~IsDateString(resp'.input.occurredAt.value)) =>
            (resp'.status = 400 /\ transactions' = transactions)]_vars

\* C25: every token signed carries a user and an organization that a
\* Membership links; a request authenticate accepts runs for the pair of a
\* token that was signed, so for a member of the organization it acts on.
C25_TokensOfMembers ==
    /\ \A t \in issued : IsMember(t.userId, t.organizationId)
    /\ resp.cred = "valid" =>
          /\ \E t \in issued : TokenPayload(t) = resp.auth
          /\ IsMember(resp.auth.userId, resp.auth.organizationId)
    /\ \A r \in Slots : req[r].cred = "valid" =>
          /\ \E t \in issued : TokenPayload(t) = req[r].auth
          /\ IsMember(req[r].auth.userId, req[r].auth.organizationId)

\* the second user's summary request has read the ledger, after a switch to
\* their own organization signed a second token of the same pair
C25_Witness ==
    /\ req[1].op = "summary" /\ req[1].cred = "valid"
    /\ req[1].auth = [userId |-> 2, organizationId |-> 12]
    /\ Cardinality(issued) = 2

\* C26: every user has exactly one Membership and every organization
\* exactly one member; a switch is answered with a token, and a reset
\* deletes, only for the organization of the caller's session.
C26_OneMembershipEach ==
    /\ \A u \in users : Cardinality({m \in memberships : m.userId = u.id}) = 1
    /\ \A o \in OrgIds : Cardinality({m \in memberships : m.organizationId = o}) = 1
    /\ \A m \in memberships : \E u \in users : u.id = m.userId
    /\ (resp.op \in {"switch", "reset"} /\ resp.status = 200) =>
          resp.input = resp.auth.organizationId
    /\ \A r \in Slots : req[r].op = "reset" => req[r].target = req[r].auth.organizationId

\* the first user's reset of their own organization, two users signed up
C26_Witness ==
    /\ resp.op = "reset" /\ resp.status = 200
    /\ resp.auth.userId = 1 /\ resp.input = 11
    /\ Cardinality(memberships) = 2

\* C27: a reset of organization o asked by a user no Membership links to o
\* is refused (403 Access denied, or 400 when o is the empty string) and
\* the store is as it was. Otherwise its first step deletes the transactions
\* of o and nothing else, and its second step, which answers, deletes the
\* Summary row of o and nothing else: with no step of another request in
\* between, o is left without transactions and without Summary row and all
\* the rest is as it was.
C27_ResetFrame ==
    [][\A r \in Slots :
          /\ \A c \in Credentials, o \in OrganizationIds :
                ResetStart(r, c, o) =>
                    IF ~IsMember(TokenPayload(c.header.token).userId, o)
                    THEN /\ resp'.status = (IF o = 0 THEN 400 ELSE 403)
                         /\ store' = store
                         /\ req' = req
                    ELSE /\ \A row \in DOMAIN transactions' : row.organizationId # o
                         /\ \A row \in DOMAIN transactions :
                               row.organizationId # o =>
                                   CopiesIn(row, transactions') = CopiesIn(row, transactions)
                         /\ <<users, memberships, summaries>>' = <<users, memberships, summaries>>
          /\ ResetSummary(r) =>
                /\ resp'.status = 200
                /\ SummariesOf(summaries', req[r].target) = {}
                /\ \A s \in summaries : s.organizationId # req[r].target => s \in summaries'
                /\ summaries' \subseteq summaries
                /\ <<users, memberships, transactions>>' = <<users, memberships, transactions>>]_vars

\* the reset of the first organization is answered: it has neither rows nor
\* Summary row, the second organization has its ledger and its Summary row
C27_Witness ==
    /\ resp.op = "reset" /\ resp.status = 200 /\ resp.input = 11
    /\ TxOfOrg(11) = EmptyBag /\ SummariesOf(summaries, 11) = {}
    /\ BagCardinality(TxOfOrg(12)) >= 4 /\ SummariesOf(summaries, 12) # {}

\* C28: when no request is in flight, the Summary row of an organization,
\* if there is one, holds the calculator's numbers for the transactions the
\* organization has now; in particular after a reset, overlapped or not by
\* summary requests (no transaction being created).
C28_NoSummaryOfDeletedRows ==
    (\A r \in Slots : req[r].pc = "idle") =>
        \A s \in summaries :
            LET txs == OrderDesc(TxOfOrg(s.organizationId))
                cash == cashOnHand(txs)
                burn == monthlyBurn(txs, burnWindow(s.updatedAt))
            IN  /\ s.cashOnHand = cash
                /\ s.monthlyBurn = burn
                /\ s.runwayMonths = runwayMonths(cash, burn)

\* the four seed rows as the claim lists them: type, amount, age in days
SeedShape ==
    {<<"INCOME", 150000, 40>>, <<"EXPENSE", 52000, 20>>,
     <<"EXPENSE", 8000, 10>>, <<"INCOME", 22000, 5>>}

\* C29: when a signup is answered, one user has its email, one Membership
\* links that user to a new organization of which they are the only member,
\* and the organization has exactly the four seed rows; a summary computed
\* the same day, nothing written since, is 112000, 60000 and 1.9, on every
\* day of signup.
C29_SeedAndFirstSummary ==
    /\ (resp.op = "signup" /\ resp.status = 200) =>
          LET u == resp.auth.userId
              o == resp.auth.organizationId
              T == TxOfOrg(o)
          IN  /\ {x.id : x \in findUserByEmail(resp.input)} = {u}
              /\ {m \in memberships : m.userId = u \/ m.organizationId = o}
                    = {[userId |-> u, organizationId |-> o]}
              /\ BagCardinality(T) = 4
              /\ {<<row.type, row.amount, now - row.occurredAt>> : row \in DOMAIN T} = SeedShape
    /\ SummaryAnswered =>
          /\ resp.body.cashOnHand = 112000
          /\ resp.body.monthlyBurn = 60000
          /\ resp.body.runwayMonths = 19

\* the first summary of the second organization, signed up on 2023-03-31
C29_Witness ==
    /\ SummaryAnswered
    /\ resp.auth.organizationId = 12
    /\ resp.input.before = {}
    /\ resp.input.now = 31 + 28 + 30
    /\ resp.body.runwayMonths = 19

\* C30: a login whose payload is well formed and whose email is unknown, or
\* known with a wrong password, is answered 401 Invalid credentials with no
\* body, the same in both cases; no token is signed and the store is as it
\* was.
C30_LoginIndistinguishable ==
    [][\A email \in Emails, password \in Passwords :
          (/\ Login(email, password)
           /\ loginSchema(email, password)
           /\ \/ findUserByEmail(email) = {}
              \/ \E u \in findUserByEmail(email) : u.passwordHash # bcryptHash(password)) =>
              /\ resp'.status = 401
              /\ resp'.message = "Invalid credentials"
              /\ resp'.auth = NoAuth
              /\ resp'.body = <<>>
              /\ issued' = issued
              /\ store' = store]_vars

\* a wrong password for a registered address, refused as an unknown address
\* is
C30_Witness ==
    /\ resp.op = "login" /\ resp.status = 401
    /\ findUserByEmail(resp.input) # {}
    /\ \E e \in Emails : IsEmail(e) /\ findUserByEmail(e) = {}

====
